---- MODULE Spec2Model ----
(***************************************************************************)
(* A model of jj's View (lib/src/view.rs): the mutable snapshot of the     *)
(* repository's named state, its mutators and accessors, together with the *)
(* RefTarget three-way merge and the reconciliation of concurrent views.   *)
(***************************************************************************)
EXTENDS Integers, Sequences, FiniteSets, TLC

VARIABLES
    data,       \* View.data: the op_store::View wrapped by the View
    last,       \* the last call made on the View: its name, arguments, result
    nops,       \* number of calls made on the View so far
    call,       \* arguments (base, side1, side2) of a RefTarget merge
    out,        \* <<result>> of the RefTarget merge, <<>> before it ran
    op_base,    \* the View of the operation both processes started from
    op_views,   \* each process's own View, loaded from op_base
    op_pc,      \* each process: "loaded", then "committed"
    op_calls,   \* each process: the <<name, target>> it set, <<>> before
    op_merged,  \* <<reconciling process, merged View>>, <<>> before
    commit,     \* the Commit a query is made on: its id and backend data
    backend,    \* what the Store's backend holds: commits, trees, tree merge
    answer,     \* the last query made on the Commit and what it returned
    signer,     \* the Store's Signer: the verifications it remembers
    seen,       \* per commit id, the commit last verified and what it returned
    operands    \* the Commits that are compared and sorted

viewVars == <<data, last, nops>>
mergeVars == <<call, out>>
opVars == <<op_base, op_views, op_pc, op_calls, op_merged>>
commitVars == <<commit, backend, answer, signer, seen, operands>>
vars == <<data, last, nops, call, out, op_base, op_views, op_pc, op_calls, op_merged,
          commit, backend, answer, signer, seen, operands>>

(***************************************************************************)
(* Bounds and input domains                                                *)
(***************************************************************************)
\* Calls made on one View in a run.
MaxOps == 2
\* Largest number of adds / removes of a RefTarget given to merge.
MaxAdds == 2
MaxRemoves == 1

CommitIds == {"c1", "c2", "c3"}
WorkspaceIds == {"default", "ws2", "ws3"}
\* Names in ascending (lexicographic) order, as a BTreeMap iterates them.
RefNameOrder == <<"dev", "main">>
RemoteNameOrder == <<"origin", "upstream">>
GitRefNameOrder == <<"refs/heads/main">>

Range(s) == {s[i] : i \in 1..Len(s)}
RefNames == Range(RefNameOrder)
RemoteNames == Range(RemoteNameOrder)
GitRefNames == Range(GitRefNameOrder)

(***************************************************************************)
(* RefTarget: a multiset of added and a multiset of removed commit ids.    *)
(* The order in which a conflicted target lists its terms is no part of    *)
(* the value here: equality of targets is equality of the two multisets.   *)
(***************************************************************************)
EmptyBag == [c \in CommitIds |-> 0]
BagOf(S) == [c \in CommitIds |-> IF c \in S THEN 1 ELSE 0]
BagPlus(f, g) == [c \in CommitIds |-> f[c] + g[c]]
Min(a, b) == IF a < b THEN a ELSE b

RECURSIVE SumOver(_, _)
SumOver(f, S) ==
    IF S = {} THEN 0
    ELSE LET c == CHOOSE x \in S : TRUE IN f[c] + SumOver(f, S \ {c})
BagSize(f) == SumOver(f, CommitIds)

Absent == [adds |-> EmptyBag, removes |-> EmptyBag]
Resolved(c) == [adds |-> BagOf({c}), removes |-> EmptyBag]
Conflicted(adds, removes) == [adds |-> BagOf(adds), removes |-> BagOf(removes)]

is_absent(t) == BagSize(t.adds) = 0 /\ BagSize(t.removes) = 0
is_present(t) == ~is_absent(t)
is_resolved(t) == BagSize(t.adds) = 1 /\ BagSize(t.removes) = 0
is_conflicted(t) == ~is_absent(t) /\ ~is_resolved(t)
added_ids(t) == {c \in CommitIds : t.adds[c] > 0}
removed_ids(t) == {c \in CommitIds : t.removes[c] > 0}

\* RemoteRef: a RefTarget and its tracking state.
RemoteRefStates == {"New", "Tracked"}
RemoteRef(target, state) == [target |-> target, state |-> state]
absent_remote_ref == RemoteRef(Absent, "New")
remote_ref_is_present(remote_ref) == is_present(remote_ref.target)

\* Every RefTarget with at most MaxAdds adds and MaxRemoves removes; no id is
\* both added and removed.
RefTargets ==
    { t \in [adds : [CommitIds -> 0..MaxAdds], removes : [CommitIds -> 0..MaxRemoves]] :
        /\ BagSize(t.adds) <= MaxAdds
        /\ BagSize(t.removes) <= MaxRemoves
        /\ \A c \in CommitIds : t.adds[c] = 0 \/ t.removes[c] = 0 }

\* Adds minus common removes: an id added and removed cancels out.
simplify(t) ==
    [ adds    |-> [c \in CommitIds |-> t.adds[c] - Min(t.adds[c], t.removes[c])],
      removes |-> [c \in CommitIds |-> t.removes[c] - Min(t.adds[c], t.removes[c])] ]

\* merge that does not cancel the ids both added and removed.
merge_without_simplify(base, side1, side2) ==
    [ adds    |-> BagPlus(BagPlus(side1.adds, side2.adds), base.removes),
      removes |-> BagPlus(BagPlus(side1.removes, side2.removes), base.adds) ]

\* merge that does not turn the base's adds into removes.
merge_forgets_base_adds(base, side1, side2) ==
    IF side1 = base THEN side2
    ELSE IF side2 = base THEN side1
    ELSE simplify([ adds    |-> BagPlus(BagPlus(side1.adds, side2.adds), base.removes),
                    removes |-> BagPlus(side1.removes, side2.removes) ])

\* merge that does not turn the base's removes into adds.
merge_forgets_base_removes(base, side1, side2) ==
    simplify([ adds    |-> BagPlus(side1.adds, side2.adds),
               removes |-> BagPlus(BagPlus(side1.removes, side2.removes), base.adds) ])

\* Three-way merge over the multisets of adds and removes: what either side
\* adds relative to base is added, what either side removes is removed;
\* nothing is resolved by picking a side. It gives the terms of the result,
\* not the order the result lists them in.
merge(base, side1, side2) ==
    simplify([ adds    |-> BagPlus(BagPlus(side1.adds, side2.adds), base.removes),
               removes |-> BagPlus(BagPlus(side1.removes, side2.removes), base.adds) ])

(***************************************************************************)
(* BTreeMap / HashSet operations                                           *)
(***************************************************************************)
EmptyMap == [k \in {} |-> Absent]
Insert(m, k, v) == [x \in DOMAIN m \cup {k} |-> IF x = k THEN v ELSE m[x]]
Remove(m, k) == [x \in DOMAIN m \ {k} |-> m[x]]

\* RefTargetOptionExt::flatten on the result of BTreeMap::get.
flatten(m, k) == IF k \in DOMAIN m THEN m[k] ELSE Absent
flatten_remote_ref(m, k) == IF k \in DOMAIN m THEN m[k] ELSE absent_remote_ref

\* The names of `order` that are keys of m, in order: BTreeMap::iter.
RECURSIVE IterKeys(_, _)
IterKeys(order, m) ==
    IF order = <<>> THEN <<>>
    ELSE IF Head(order) \in DOMAIN m
         THEN <<Head(order)>> \o IterKeys(Tail(order), m)
         ELSE IterKeys(Tail(order), m)

(***************************************************************************)
(* View                                                                    *)
(***************************************************************************)
EmptyView ==
    [ wc_commit_ids   |-> EmptyMap,
      head_ids        |-> {},
      local_bookmarks |-> EmptyMap,
      tags            |-> EmptyMap,
      remote_views    |-> EmptyMap,
      git_refs        |-> EmptyMap,
      git_head        |-> Absent ]

EmptyRemoteView == [bookmarks |-> EmptyMap]

get_wc_commit_id(self, workspace_id) ==
    IF workspace_id \in DOMAIN self.wc_commit_ids
    THEN <<self.wc_commit_ids[workspace_id]>> ELSE <<>>

set_wc_commit(self, workspace_id, commit_id) ==
    [self EXCEPT !.wc_commit_ids = Insert(@, workspace_id, commit_id)]

remove_wc_commit(self, workspace_id) ==
    [self EXCEPT !.wc_commit_ids = Remove(@, workspace_id)]

\* rename_workspace without the check that the new id is free.
rename_workspace_overwrites(self, old_workspace_id, new_workspace_id) ==
    IF old_workspace_id \notin DOMAIN self.wc_commit_ids
    THEN [view |-> self, result |-> "WorkspaceDoesNotExist"]
    ELSE [view |-> [self EXCEPT !.wc_commit_ids =
                       Insert(Remove(@, old_workspace_id), new_workspace_id,
                              self.wc_commit_ids[old_workspace_id])],
          result |-> "Ok"]

\* rename_workspace that treats a missing old id as nothing to do.
rename_workspace_ignores_missing(self, old_workspace_id, new_workspace_id) ==
    IF new_workspace_id \in DOMAIN self.wc_commit_ids
    THEN [view |-> self, result |-> "WorkspaceAlreadyExists"]
    ELSE IF old_workspace_id \notin DOMAIN self.wc_commit_ids
         THEN [view |-> self, result |-> "Ok"]
         ELSE [view |-> [self EXCEPT !.wc_commit_ids =
                            Insert(Remove(@, old_workspace_id), new_workspace_id,
                                   self.wc_commit_ids[old_workspace_id])],
               result |-> "Ok"]

\* rename_workspace that binds the new id but leaves the old binding.
rename_workspace_keeps_old(self, old_workspace_id, new_workspace_id) ==
    IF new_workspace_id \in DOMAIN self.wc_commit_ids
    THEN [view |-> self, result |-> "WorkspaceAlreadyExists"]
    ELSE IF old_workspace_id \notin DOMAIN self.wc_commit_ids
         THEN [view |-> self, result |-> "WorkspaceDoesNotExist"]
         ELSE [view |-> [self EXCEPT !.wc_commit_ids =
                            Insert(@, new_workspace_id,
                                   self.wc_commit_ids[old_workspace_id])],
               result |-> "Ok"]

\* Returns the View after the call and the Result.
rename_workspace(self, old_workspace_id, new_workspace_id) ==
    IF new_workspace_id \in DOMAIN self.wc_commit_ids
    THEN [view |-> self, result |-> "WorkspaceAlreadyExists"]
    ELSE LET found   == old_workspace_id \in DOMAIN self.wc_commit_ids
             removed == [self EXCEPT !.wc_commit_ids = Remove(@, old_workspace_id)]
         IN  IF ~found
             THEN [view |-> removed, result |-> "WorkspaceDoesNotExist"]
             ELSE [view |-> [removed EXCEPT !.wc_commit_ids =
                                Insert(@, new_workspace_id,
                                       self.wc_commit_ids[old_workspace_id])],
                   result |-> "Ok"]

add_head(self, head_id) == [self EXCEPT !.head_ids = @ \cup {head_id}]

remove_head(self, head_id) == [self EXCEPT !.head_ids = @ \ {head_id}]

\* The (name, target) pairs in lexicographical order of the names.
local_bookmarks(self) ==
    LET names == IterKeys(RefNameOrder, self.local_bookmarks)
    IN  [i \in 1..Len(names) |-> <<names[i], self.local_bookmarks[names[i]]>>]

get_local_bookmark(self, name) == flatten(self.local_bookmarks, name)

\* set_local_bookmark_target with the is_present test inverted.
set_local_bookmark_target_inverted(self, name, target) ==
    IF is_present(target)
    THEN [self EXCEPT !.local_bookmarks = Remove(@, name)]
    ELSE [self EXCEPT !.local_bookmarks = Insert(@, name, target)]

\* set_local_bookmark_target without the is_present test.
set_local_bookmark_target_always_inserts(self, name, target) ==
    [self EXCEPT !.local_bookmarks = Insert(@, name, target)]

\* set_local_bookmark_target that, for an absent target, also forgets the
\* bookmark on every remote.
set_local_bookmark_target_forgets_remotes(self, name, target) ==
    IF is_present(target)
    THEN [self EXCEPT !.local_bookmarks = Insert(@, name, target)]
    ELSE [self EXCEPT !.local_bookmarks = Remove(@, name),
                      !.remote_views =
                          [r \in DOMAIN @ |-> [@[r] EXCEPT !.bookmarks = Remove(@, name)]]]

set_local_bookmark_target(self, name, target) ==
    IF is_present(target)
    THEN [self EXCEPT !.local_bookmarks = Insert(@, name, target)]
    ELSE [self EXCEPT !.local_bookmarks = Remove(@, name)]

get_remote_bookmark(self, remote, name) ==
    IF remote \in DOMAIN self.remote_views
    THEN flatten_remote_ref(self.remote_views[remote].bookmarks, name)
    ELSE absent_remote_ref

\* set_remote_bookmark that drops a remote view once its last bookmark goes.
set_remote_bookmark_prunes_empty_view(self, remote, name, remote_ref) ==
    IF remote_ref_is_present(remote_ref)
    THEN LET remote_view == IF remote \in DOMAIN self.remote_views
                            THEN self.remote_views[remote]
                            ELSE EmptyRemoteView
         IN  [self EXCEPT !.remote_views =
                 Insert(@, remote,
                        [remote_view EXCEPT !.bookmarks = Insert(@, name, remote_ref)])]
    ELSE IF remote \in DOMAIN self.remote_views
         THEN IF DOMAIN self.remote_views[remote].bookmarks \subseteq {name}
              THEN [self EXCEPT !.remote_views = Remove(@, remote)]
              ELSE [self EXCEPT !.remote_views[remote].bookmarks = Remove(@, name)]
         ELSE self

set_remote_bookmark(self, remote, name, remote_ref) ==
    IF remote_ref_is_present(remote_ref)
    THEN LET remote_view == IF remote \in DOMAIN self.remote_views
                            THEN self.remote_views[remote]
                            ELSE EmptyRemoteView
         IN  [self EXCEPT !.remote_views =
                 Insert(@, remote,
                        [remote_view EXCEPT !.bookmarks = Insert(@, name, remote_ref)])]
    ELSE IF remote \in DOMAIN self.remote_views
         THEN [self EXCEPT !.remote_views[remote].bookmarks = Remove(@, name)]
         ELSE self

remove_remote(self, remote_name) ==
    [self EXCEPT !.remote_views = Remove(@, remote_name)]

\* rename_remote that leaves both views alone when the new name is taken.
rename_remote_keeps_existing(self, old_name, new_name) ==
    IF old_name \in DOMAIN self.remote_views /\ new_name \notin DOMAIN self.remote_views
    THEN [self EXCEPT !.remote_views =
             Insert(Remove(@, old_name), new_name, self.remote_views[old_name])]
    ELSE self

rename_remote(self, old_name, new_name) ==
    IF old_name \in DOMAIN self.remote_views
    THEN [self EXCEPT !.remote_views =
             Insert(Remove(@, old_name), new_name, self.remote_views[old_name])]
    ELSE self

tags(self) == self.tags

get_tag(self, name) == flatten(self.tags, name)

\* set_tag_target that leaves the old entry when the target is absent.
set_tag_target_keeps_entry(self, name, target) ==
    IF is_present(target)
    THEN [self EXCEPT !.tags = Insert(@, name, target)]
    ELSE self

set_tag_target(self, name, target) ==
    IF is_present(target)
    THEN [self EXCEPT !.tags = Insert(@, name, target)]
    ELSE [self EXCEPT !.tags = Remove(@, name)]

git_refs(self) == self.git_refs

get_git_ref(self, name) == flatten(self.git_refs, name)

set_git_ref_target(self, name, target) ==
    IF is_present(target)
    THEN [self EXCEPT !.git_refs = Insert(@, name, target)]
    ELSE [self EXCEPT !.git_refs = Remove(@, name)]

git_head(self) == self.git_head

set_git_head_target(self, target) == [self EXCEPT !.git_head = target]

\* set_view(data): the View holds `new_data`, whatever it held.
set_view(self, new_data) == new_data

\* store_view_mut(): the caller gets the stored op_store::View and writes to
\* it directly: a head is inserted, the git head is assigned, or an entry of
\* one of the maps is inserted as it is given, absent or not.
store_view_mut(self, write) ==
    CASE write.field = "head_ids" -> [self EXCEPT !.head_ids = @ \cup {write.value}]
      [] write.field = "git_head" -> [self EXCEPT !.git_head = write.value]
      [] OTHER -> [self EXCEPT ![write.field] = Insert(@, write.key, write.value)]

\* Ascending order of the commit ids (Ord on CommitId).
CommitIdOrder == <<"c1", "c2", "c3">>

\* Every sequence that holds each id as often as the bag does. The order in
\* which a HashSet, or the terms of a RefTarget, are iterated is not fixed by
\* what the View stores: each of these sequences can be the iteration.
RECURSIVE Orderings(_)
Orderings(bag) ==
    IF \A c \in CommitIds : bag[c] = 0 THEN {<<>>}
    ELSE UNION {{<<c>> \o rest : rest \in Orderings([bag EXCEPT ![c] = @ - 1])} :
                   c \in {x \in CommitIds : bag[x] > 0}}

\* chain of two iterators, each given by the sequences it can yield.
Chain(firsts, seconds) == {a \o b : a \in firsts, b \in seconds}

\* ref_target_ids that yields the added ids only.
ref_target_ids_adds_only(target) == Orderings(target.adds)

\* target.as_merge().iter().flatten(): every id of the target, the adds and
\* the removes, as often as it occurs.
ref_target_ids(target) == Orderings(BagPlus(target.adds, target.removes))

\* values().flat_map(ref_target_ids) over the keys in `keys`.
RECURSIVE flat_map_ref_target_ids(_, _)
flat_map_ref_target_ids(keys, targets) ==
    IF keys = <<>> THEN {<<>>}
    ELSE Chain(ref_target_ids(targets[Head(keys)]),
               flat_map_ref_target_ids(Tail(keys), targets))

remote_view_ids(remote_view) ==
    flat_map_ref_target_ids(
        IterKeys(RefNameOrder, remote_view.bookmarks),
        [n \in DOMAIN remote_view.bookmarks |-> remote_view.bookmarks[n].target])

RECURSIVE flat_map_remote_view_ids(_, _)
flat_map_remote_view_ids(remotes, remote_views) ==
    IF remotes = <<>> THEN {<<>>}
    ELSE Chain(remote_view_ids(remote_views[Head(remotes)]),
               flat_map_remote_view_ids(Tail(remotes), remote_views))

WorkspaceIdOrder == <<"default", "ws2", "ws3">>

\* The sequences of commit ids the iterator can yield, duplicates included:
\* the seven parts are chained in this order, the maps are walked in key
\* order, and the heads and the terms of each target come in any order.
all_referenced_commit_ids(self) ==
    LET workspaces == IterKeys(WorkspaceIdOrder, self.wc_commit_ids)
    IN  Chain(Orderings(BagOf(self.head_ids)),
        Chain(flat_map_ref_target_ids(IterKeys(RefNameOrder, self.local_bookmarks),
                                      self.local_bookmarks),
        Chain(flat_map_ref_target_ids(IterKeys(RefNameOrder, self.tags), self.tags),
        Chain(flat_map_remote_view_ids(IterKeys(RemoteNameOrder, self.remote_views),
                                       self.remote_views),
        Chain(flat_map_ref_target_ids(IterKeys(GitRefNameOrder, self.git_refs),
                                      self.git_refs),
        Chain(ref_target_ids(self.git_head),
              {[i \in 1..Len(workspaces) |-> self.wc_commit_ids[workspaces[i]]]}))))))

\* Position of a name in its ascending order: n1 < n2 iff Rank(n1) < Rank(n2).
Rank(order, x) == CHOOSE i \in 1..Len(order) : order[i] = x

\* remote_bookmarks that yields nothing unless the remote's refs are tracked.
remote_bookmarks_tracked_only(self, remote_name) ==
    IF remote_name \in DOMAIN self.remote_views
    THEN LET bookmarks == self.remote_views[remote_name].bookmarks
             tracked == [n \in {x \in DOMAIN bookmarks : bookmarks[x].state = "Tracked"}
                            |-> bookmarks[n]]
             names == IterKeys(RefNameOrder, tracked)
         IN  [i \in 1..Len(names) |-> <<names[i], bookmarks[names[i]]>>]
    ELSE <<>>

\* The (name, remote_ref) pairs of one remote in lexicographical order; none
\* for a remote that has no view.
remote_bookmarks(self, remote_name) ==
    IF remote_name \in DOMAIN self.remote_views
    THEN LET bookmarks == self.remote_views[remote_name].bookmarks
             names == IterKeys(RefNameOrder, bookmarks)
         IN  [i \in 1..Len(names) |-> <<names[i], bookmarks[names[i]]>>]
    ELSE <<>>

\* Merge-join of two name-sorted sequences: one entry per name of either
\* side, the missing side absent.
RECURSIVE iter_named_local_remote_refs(_, _)
iter_named_local_remote_refs(locals, remotes) ==
    IF locals = <<>> /\ remotes = <<>> THEN <<>>
    ELSE IF remotes = <<>>
         \/ (locals # <<>> /\ Rank(RefNameOrder, Head(locals)[1])
                               < Rank(RefNameOrder, Head(remotes)[1]))
    THEN <<<<Head(locals)[1], <<Head(locals)[2], absent_remote_ref>>>>>>
         \o iter_named_local_remote_refs(Tail(locals), remotes)
    ELSE IF locals = <<>>
         \/ Rank(RefNameOrder, Head(remotes)[1]) < Rank(RefNameOrder, Head(locals)[1])
    THEN <<<<Head(remotes)[1], <<Absent, Head(remotes)[2]>>>>>>
         \o iter_named_local_remote_refs(locals, Tail(remotes))
    ELSE <<<<Head(locals)[1], <<Head(locals)[2], Head(remotes)[2]>>>>>>
         \o iter_named_local_remote_refs(Tail(locals), Tail(remotes))

\* The (name, LocalAndRemoteRef) entries for one remote.
local_remote_bookmarks(self, remote_name) ==
    LET joined == iter_named_local_remote_refs(local_bookmarks(self),
                                               remote_bookmarks(self, remote_name))
    IN  [i \in 1..Len(joined) |->
            <<joined[i][1],
              [local_target |-> joined[i][2][1], remote_ref |-> joined[i][2][2]]>>]

\* StringPattern: an exact string, or the pattern every string matches.
Exact(s) == [kind |-> "Exact", s |-> s]
Everything == [kind |-> "Everything"]
is_match(pattern, haystack) ==
    IF pattern.kind = "Exact" THEN haystack = pattern.s ELSE TRUE

\* The (key, value) entries of a map whose key matches, in key order.
filter_btree_map_as_deref(pattern, order, map) ==
    LET matching == [k \in {x \in DOMAIN map : is_match(pattern, x)} |-> map[k]]
        keys == IterKeys(order, matching)
    IN  [i \in 1..Len(keys) |-> <<keys[i], map[keys[i]]>>]

\* RemoteRefSymbol orders by (name, remote).
to_remote_symbol(name, remote) == [name |-> name, remote |-> remote]
symbol_lt(symbol1, symbol2) ==
    \/ Rank(RefNameOrder, symbol1.name) < Rank(RefNameOrder, symbol2.name)
    \/ /\ symbol1.name = symbol2.name
       /\ Rank(RemoteNameOrder, symbol1.remote) < Rank(RemoteNameOrder, symbol2.remote)

\* itertools kmerge_by: a binary heap of the non-empty iterators ordered by
\* their heads. less_than is the closure applied to two heads.
less_than(iter1, iter2) == symbol_lt(Head(iter1)[1], Head(iter2)[1])
swap(heap, i, j) == [heap EXCEPT ![i] = heap[j], ![j] = heap[i]]
\* Vec::swap_remove: the last item takes the place of the removed one.
swap_remove(heap, i) ==
    [k \in 1..(Len(heap) - 1) |-> IF k = i THEN heap[Len(heap)] ELSE heap[k]]
\* The item at pos sinks below its smaller child while that child is less.
RECURSIVE sift_down(_, _)
sift_down(heap, pos) ==
    LET child == 2 * pos
    IN  IF child + 1 <= Len(heap)
        THEN LET least == IF less_than(heap[child + 1], heap[child])
                          THEN child + 1 ELSE child
             IN  IF ~less_than(heap[least], heap[pos]) THEN heap
                 ELSE sift_down(swap(heap, pos, least), least)
        ELSE IF child = Len(heap) /\ less_than(heap[child], heap[pos])
        THEN swap(heap, pos, child)
        ELSE heap
\* heapify sifts down from the middle (pos = Len \div 2) to the front.
RECURSIVE heapify(_, _)
heapify(heap, pos) ==
    IF pos = 0 THEN heap ELSE heapify(sift_down(heap, pos), pos - 1)
\* KMergeBy::next until the heap is empty: yields the head of the first
\* iterator, advances it or removes it when it has no more, and sifts down.
RECURSIVE kmerge_next(_)
kmerge_next(heap) ==
    IF heap = <<>> THEN <<>>
    ELSE LET advanced == IF Tail(heap[1]) # <<>>
                         THEN [heap EXCEPT ![1] = Tail(heap[1])]
                         ELSE swap_remove(heap, 1)
         IN  <<Head(heap[1])>> \o kmerge_next(sift_down(advanced, 1))
kmerge_by(iters) ==
    LET heads == SelectSeq(iters, LAMBDA it : it # <<>>)
    IN  kmerge_next(heapify(heads, Len(heads) \div 2))

RECURSIVE Concat(_)
Concat(iters) == IF iters = <<>> THEN <<>> ELSE Head(iters) \o Concat(Tail(iters))

\* The per-remote iterators of (symbol, remote_ref) that match both patterns.
matching_per_remote(self, bookmark_pattern, remote_pattern) ==
    LET remotes == filter_btree_map_as_deref(remote_pattern, RemoteNameOrder,
                                             self.remote_views)
    IN  [r \in 1..Len(remotes) |->
            LET entries == filter_btree_map_as_deref(bookmark_pattern, RefNameOrder,
                                                     remotes[r][2].bookmarks)
            IN  [i \in 1..Len(entries) |->
                    <<to_remote_symbol(entries[i][1], remotes[r][1]), entries[i][2]>>]]

\* remote_bookmarks_matching with flat_map in place of kmerge.
remote_bookmarks_matching_flat_map(self, bookmark_pattern, remote_pattern) ==
    Concat(matching_per_remote(self, bookmark_pattern, remote_pattern))

remote_bookmarks_matching(self, bookmark_pattern, remote_pattern) ==
    kmerge_by(matching_per_remote(self, bookmark_pattern, remote_pattern))

(***************************************************************************)
(* Commit (lib/src/commit.rs): a commit id with its backend data, and the  *)
(* queries answered from the Store.                                        *)
(***************************************************************************)
\* Most parents a queried commit has.
MaxParents == 2

\* BackendResult / SignResult values.
Ok(value) == [ok |-> TRUE, value |-> value]
Err(error) == [ok |-> FALSE, error |-> error]
ObjectNotFound(id) == [kind |-> "ObjectNotFound", id |-> id]

\* MergedTreeId: a legacy single tree id, or a merge of tree ids that is
\* resolved when it has one term.
TreeIds == {"t1", "t2"}
Legacy(tree_id) == [kind |-> "Legacy", id |-> tree_id]
MergeOfTrees(tree_ids) == [kind |-> "Merge", ids |-> tree_ids]
tree_ids_is_resolved(tree_ids) == Len(tree_ids) = 1
\* MergedTreeId::to_merge and the == of MergedTreeId, which compares through
\* it: a legacy id equals the resolved merge of the same tree.
to_merge(merged_tree_id) ==
    IF merged_tree_id.kind = "Legacy" THEN <<merged_tree_id.id>> ELSE merged_tree_id.ids
merged_tree_id_eq(self, other) == to_merge(self) = to_merge(other)
MergedTreeIds ==
    { Legacy("t1"), Legacy("t2"), MergeOfTrees(<<"t1">>),
      MergeOfTrees(<<"t1", "t2", "t1">>) }

\* backend::Commit
BackendCommit(parent_ids, root_tree, description, committer_timestamp, secure_sig) ==
    [ parents |-> parent_ids, root_tree |-> root_tree, description |-> description,
      committer_timestamp |-> committer_timestamp, secure_sig |-> secure_sig ]

\* Commit::new
NewCommit(id, commit_data) == [id |-> id, data |-> commit_data]

\* Store::get_commit: the commit the backend holds under the id, or not found.
get_commit(store, id) ==
    IF id \in DOMAIN store.commits
    THEN Ok(NewCommit(id, store.commits[id]))
    ELSE Err(ObjectNotFound(id))

\* Store::get_root_tree: the MergedTree of a root tree id; every tree it
\* names has to be in the backend. A legacy tree carries whether its content
\* holds conflicts.
MergedTree(root_tree, content_conflict) ==
    [id |-> root_tree, content_conflict |-> content_conflict]
get_root_tree(store, root_tree) ==
    IF root_tree.kind = "Legacy"
    THEN IF store.trees[root_tree.id] = "missing"
         THEN Err(ObjectNotFound(root_tree.id))
         ELSE Ok(MergedTree(root_tree, store.trees[root_tree.id] = "conflicted"))
    ELSE IF \E i \in 1..Len(root_tree.ids) : store.trees[root_tree.ids[i]] = "missing"
         THEN Err(ObjectNotFound(
                  root_tree.ids[CHOOSE i \in 1..Len(root_tree.ids) :
                      /\ store.trees[root_tree.ids[i]] = "missing"
                      /\ \A j \in 1..(i - 1) : store.trees[root_tree.ids[j]] # "missing"]))
         ELSE Ok(MergedTree(root_tree,
                            \E i \in 1..Len(root_tree.ids) :
                                store.trees[root_tree.ids[i]] = "conflicted"))

\* MergedTree::has_conflict: a legacy tree by its content, a merge of trees
\* by being unresolved.
merged_tree_has_conflict(merged_tree) ==
    IF merged_tree.id.kind = "Legacy"
    THEN merged_tree.content_conflict
    ELSE ~tree_ids_is_resolved(merged_tree.id.ids)

\* rewrite::merge_commit_trees: one commit's own tree, otherwise what the
\* n-way tree merge of the backend gives for these commits.
merge_commit_trees(store, commits) ==
    IF Len(commits) = 1 THEN Ok(commits[1].data.root_tree) ELSE store.tree_merge

\* Iterator::try_collect: the values if every item is Ok, else the first Err.
RECURSIVE try_collect(_)
try_collect(results) ==
    IF results = <<>> THEN Ok(<<>>)
    ELSE IF ~Head(results).ok THEN Head(results)
    ELSE LET rest == try_collect(Tail(results))
         IN  IF rest.ok THEN Ok(<<Head(results).value>> \o rest.value) ELSE rest

tree_id(self) == self.data.root_tree
description(self) == self.data.description

\* parents() that passes over the ids the backend does not hold.
RECURSIVE found_only(_, _)
found_only(store, ids) ==
    IF ids = <<>> THEN <<>>
    ELSE (IF get_commit(store, Head(ids)).ok THEN <<get_commit(store, Head(ids))>> ELSE <<>>)
         \o found_only(store, Tail(ids))
parents_skips_missing(self, store) == found_only(store, self.data.parents)

\* One BackendResult<Commit> per parent id, in order.
parents(self, store) ==
    [i \in 1..Len(self.data.parents) |-> get_commit(store, self.data.parents[i])]

tree(self, store) == get_root_tree(store, self.data.root_tree)

parent_tree(self, store) ==
    LET collected == try_collect(parents(self, store))
    IN  IF ~collected.ok THEN collected
        ELSE merge_commit_trees(store, collected.value)

\* is_empty that also asks for an empty description.
is_empty_reads_description(self, store) ==
    LET collected == try_collect(parents(self, store))
    IN  IF ~collected.ok THEN collected
        ELSE IF Len(collected.value) = 1
        THEN Ok(merged_tree_id_eq(tree_id(collected.value[1]), tree_id(self))
                /\ description(self) = "")
        ELSE LET merged == merge_commit_trees(store, collected.value)
             IN  IF ~merged.ok THEN merged
                 ELSE Ok(merged_tree_id_eq(tree_id(self), merged.value)
                         /\ description(self) = "")

is_empty(self, store) ==
    LET collected == try_collect(parents(self, store))
    IN  IF ~collected.ok THEN collected
        ELSE IF Len(collected.value) = 1
        THEN Ok(merged_tree_id_eq(tree_id(collected.value[1]), tree_id(self)))
        ELSE LET merged == merge_commit_trees(store, collected.value)
             IN  IF ~merged.ok THEN merged
                 ELSE Ok(merged_tree_id_eq(tree_id(self), merged.value))

has_conflict(self, store) ==
    IF tree_id(self).kind = "Merge"
    THEN Ok(~tree_ids_is_resolved(tree_id(self).ids))
    ELSE LET loaded == tree(self, store)
         IN  IF ~loaded.ok THEN loaded ELSE Ok(merged_tree_has_conflict(loaded.value))

\* is_discardable that does not look at the description.
is_discardable_ignores_description(self, store) ==
    LET collected == try_collect(parents(self, store))
    IN  IF ~collected.ok THEN collected
        ELSE IF Len(collected.value) = 1
        THEN Ok(merged_tree_id_eq(tree_id(self), tree_id(collected.value[1])))
        ELSE Ok(FALSE)

is_discardable(self, store) ==
    IF description(self) = ""
    THEN LET collected == try_collect(parents(self, store))
         IN  IF ~collected.ok THEN collected
             ELSE IF Len(collected.value) = 1
             THEN Ok(merged_tree_id_eq(tree_id(self), tree_id(collected.value[1])))
             ELSE Ok(FALSE)
    ELSE Ok(FALSE)

\* No commit is under query.
NoCommit == NewCommit("c1", BackendCommit(<<>>, Legacy("t1"), "", 0, <<>>))
NoBackend ==
    [ commits |-> <<>>, trees |-> [t \in TreeIds |-> "clean"],
      tree_merge |-> Ok(Legacy("t1")) ]
\* Signer::verify: the verification remembered for the commit id; else the
\* outcome of running the signing backend, remembered when it is a Good or
\* a Bad verification. A failure and an Unknown verification are not kept.
signer_verify(self, id, payload, sig, outcome) ==
    IF id \in DOMAIN self.cache
    THEN [result |-> Ok(self.cache[id]), signer |-> self, performed |-> FALSE]
    ELSE [result |-> outcome,
          signer |-> IF outcome.ok /\ outcome.value.status \in {"Good", "Bad"}
                     THEN [self EXCEPT !.cache = Insert(self.cache, id, outcome.value)]
                     ELSE self,
          performed |-> TRUE]

is_signed(self) == self.data.secure_sig # <<>>

\* verification() that answers Ok(None) when the signer fails.
verification_swallows_error(self, store_signer, outcome) ==
    IF self.data.secure_sig = <<>>
    THEN [result |-> Ok(<<>>), signer |-> store_signer, verify_calls |-> <<>>,
          performed |-> FALSE]
    ELSE LET verified == signer_verify(store_signer, self.id,
                                       self.data.secure_sig[1].data,
                                       self.data.secure_sig[1].sig, outcome)
         IN  [result |-> IF verified.result.ok
                         THEN Ok(<<verified.result.value>>) ELSE Ok(<<>>),
              signer |-> verified.signer, verify_calls |-> <<verified.result>>,
              performed |-> verified.performed]

\* Option<SecureSig> mapped through Signer::verify and transposed: Ok(None)
\* without a signature, else Ok(Some(verification)) or the signer's error.
\* verify_calls holds what each call of the signer returned.
verification(self, store_signer, outcome) ==
    IF self.data.secure_sig = <<>>
    THEN [result |-> Ok(<<>>), signer |-> store_signer, verify_calls |-> <<>>,
          performed |-> FALSE]
    ELSE LET verified == signer_verify(store_signer, self.id,
                                       self.data.secure_sig[1].data,
                                       self.data.secure_sig[1].sig, outcome)
         IN  [result |-> IF verified.result.ok
                         THEN Ok(<<verified.result.value>>) ELSE verified.result,
              signer |-> verified.signer, verify_calls |-> <<verified.result>>,
              performed |-> verified.performed]

NewSigner == [cache |-> EmptyMap]

\* Latest committer timestamp of a compared commit.
MaxTimestamp == 1

\* std::cmp::Ordering of two integers, and Ordering::then_with.
cmp_int(x, y) == IF x < y THEN "Less" ELSE IF x = y THEN "Equal" ELSE "Greater"
then_with(ordering, next_ordering) ==
    IF ordering = "Equal" THEN next_ordering ELSE ordering

\* PartialEq, Ord and Hash of Commit: the id alone. hash gives what is fed
\* to the hasher.
eq(self, other) == self.id = other.id
cmp(self, other) ==
    cmp_int(Rank(CommitIdOrder, self.id), Rank(CommitIdOrder, other.id))
hash(self) == <<self.id>>

\* CommitByCommitterTimestamp(pub Commit): a one-field tuple; its derived
\* equality is the equality of the wrapped Commit.
CommitByCommitterTimestamp(wrapped) == <<wrapped>>
by_timestamp_eq(self, other) == eq(self[1], other[1])

\* Ord of the wrapper: committer timestamp, then the wrapped Commit.
by_timestamp_cmp(self, other) ==
    then_with(cmp_int(self[1].data.committer_timestamp,
                      other[1].data.committer_timestamp),
              cmp(self[1], other[1]))

\* slice::sort of wrappers: stable, by the wrapper's Ord.
RECURSIVE insert_sorted(_, _)
insert_sorted(sorted, item) ==
    IF sorted = <<>> THEN <<item>>
    ELSE IF by_timestamp_cmp(item, Head(sorted)) = "Less"
    THEN <<item>> \o sorted
    ELSE <<Head(sorted)>> \o insert_sorted(Tail(sorted), item)
RECURSIVE sort(_)
sort(items) ==
    IF items = <<>> THEN <<>>
    ELSE insert_sorted(sort(SubSeq(items, 1, Len(items) - 1)), items[Len(items)])
CommitIdle ==
    /\ commit = NoCommit
    /\ backend = NoBackend
    /\ answer = [op |-> "none"]
    /\ signer = NewSigner
    /\ seen = EmptyMap
    /\ operands = <<>>

(***************************************************************************)
(* The View as a state machine: one action per mutator call.               *)
(***************************************************************************)
\* Targets handed to the setters: absent, resolved and conflicted ones.
TargetInputs ==
    {Absent, Resolved("c1"), Resolved("c2"), Conflicted({"c2", "c3"}, {"c1"})}
RemoteRefInputs ==
    { RemoteRef(Absent, "New"), RemoteRef(Absent, "Tracked"),
      RemoteRef(Resolved("c1"), "New"), RemoteRef(Resolved("c2"), "Tracked"),
      RemoteRef(Conflicted({"c2", "c3"}, {"c1"}), "Tracked") }

ViewIdle == data = EmptyView /\ last = [op |-> "new"] /\ nops = 0
MergeIdle == call = [base |-> Absent, side1 |-> Absent, side2 |-> Absent] /\ out = <<>>
OpIdle ==
    /\ op_base = EmptyView
    /\ op_views = <<>>
    /\ op_pc = <<>>
    /\ op_calls = <<>>
    /\ op_merged = <<>>

\* At most MaxOps calls are made on the View in a run.
MayCall == nops < MaxOps

\* Every call is recorded and counted.
Called(record) ==
    /\ last' = record
    /\ nops' = nops + 1
    /\ UNCHANGED <<mergeVars, opVars, commitVars>>

SetWcCommit(workspace_id, commit_id) ==
    /\ MayCall
    /\ data' = set_wc_commit(data, workspace_id, commit_id)
    /\ Called([op |-> "set_wc_commit", workspace_id |-> workspace_id,
               commit_id |-> commit_id])

RemoveWcCommit(workspace_id) ==
    /\ MayCall
    /\ data' = remove_wc_commit(data, workspace_id)
    /\ Called([op |-> "remove_wc_commit", workspace_id |-> workspace_id])

RenameWorkspace(old_workspace_id, new_workspace_id) ==
    LET r == rename_workspace(data, old_workspace_id, new_workspace_id)
    IN  /\ MayCall
        /\ data' = r.view
        /\ Called([op |-> "rename_workspace", old |-> old_workspace_id,
                   new |-> new_workspace_id, result |-> r.result])

AddHead(head_id) ==
    /\ MayCall
    /\ data' = add_head(data, head_id)
    /\ Called([op |-> "add_head", head_id |-> head_id])

RemoveHead(head_id) ==
    /\ MayCall
    /\ data' = remove_head(data, head_id)
    /\ Called([op |-> "remove_head", head_id |-> head_id])

SetLocalBookmarkTarget(name, target) ==
    /\ MayCall
    /\ data' = set_local_bookmark_target(data, name, target)
    /\ Called([op |-> "set_local_bookmark_target", name |-> name, target |-> target])

SetRemoteBookmark(remote, name, remote_ref) ==
    /\ MayCall
    /\ data' = set_remote_bookmark(data, remote, name, remote_ref)
    /\ Called([op |-> "set_remote_bookmark", remote |-> remote, name |-> name,
               remote_ref |-> remote_ref])

RemoveRemote(remote_name) ==
    /\ MayCall
    /\ data' = remove_remote(data, remote_name)
    /\ Called([op |-> "remove_remote", remote |-> remote_name])

RenameRemote(old_name, new_name) ==
    /\ MayCall
    /\ data' = rename_remote(data, old_name, new_name)
    /\ Called([op |-> "rename_remote", old |-> old_name, new |-> new_name])

SetTagTarget(name, target) ==
    /\ MayCall
    /\ data' = set_tag_target(data, name, target)
    /\ Called([op |-> "set_tag_target", name |-> name, target |-> target])

SetGitRefTarget(name, target) ==
    /\ MayCall
    /\ data' = set_git_ref_target(data, name, target)
    /\ Called([op |-> "set_git_ref_target", name |-> name, target |-> target])

SetGitHeadTarget(target) ==
    /\ MayCall
    /\ data' = set_git_head_target(data, target)
    /\ Called([op |-> "set_git_head_target", target |-> target])

\* Views handed to set_view: one with a head, a bookmark, a working copy and
\* a git head; one with entries in every field, two remotes and a conflicted
\* bookmark; and one that stores absent targets as entries.
SetViewInputs ==
    { [EmptyView EXCEPT !.head_ids = {"c1"},
                        !.local_bookmarks = Insert(EmptyMap, "main", Resolved("c1")),
                        !.wc_commit_ids = Insert(EmptyMap, "default", "c1"),
                        !.git_head = Resolved("c2")],
      [ wc_commit_ids   |-> Insert(Insert(EmptyMap, "default", "c1"), "ws2", "c2"),
        head_ids        |-> {"c1", "c3"},
        local_bookmarks |-> Insert(Insert(EmptyMap, "main", Resolved("c1")),
                                   "dev", Conflicted({"c2", "c3"}, {"c1"})),
        tags            |-> Insert(EmptyMap, "main", Resolved("c2")),
        remote_views    |->
            Insert(Insert(EmptyMap, "origin",
                          [bookmarks |-> Insert(EmptyMap, "main",
                                                RemoteRef(Resolved("c1"), "New"))]),
                   "upstream",
                   [bookmarks |-> Insert(EmptyMap, "dev",
                                         RemoteRef(Resolved("c2"), "Tracked"))]),
        git_refs        |-> Insert(EmptyMap, "refs/heads/main", Resolved("c1")),
        git_head        |-> Resolved("c2") ],
      [EmptyView EXCEPT !.local_bookmarks = Insert(EmptyMap, "main", Absent),
                        !.remote_views =
                            Insert(EmptyMap, "origin",
                                   [bookmarks |-> Insert(EmptyMap, "main",
                                                         RemoteRef(Absent, "Tracked"))])] }

\* Writes made through store_view_mut(): one for every field.
StoreViewWrites ==
    { [field |-> "head_ids", value |-> "c2"],
      [field |-> "git_head", value |-> Resolved("c1")],
      [field |-> "wc_commit_ids", key |-> "ws2", value |-> "c2"],
      [field |-> "local_bookmarks", key |-> "dev", value |-> Absent],
      [field |-> "tags", key |-> "main", value |-> Absent],
      [field |-> "git_refs", key |-> "refs/heads/main", value |-> Absent],
      [field |-> "remote_views", key |-> "upstream", value |-> EmptyRemoteView] }

SetView(new_data) ==
    /\ MayCall
    /\ data' = set_view(data, new_data)
    /\ Called([op |-> "set_view", data |-> new_data])

StoreViewMut(write) ==
    /\ MayCall
    /\ data' = store_view_mut(data, write)
    /\ Called([op |-> "store_view_mut", write |-> write])

Init ==
    /\ data = EmptyView
    /\ last = [op |-> "new"]
    /\ nops = 0
    /\ MergeIdle
    /\ OpIdle
    /\ CommitIdle

Next ==
    \/ \E w \in WorkspaceIds, c \in CommitIds : SetWcCommit(w, c)
    \/ \E w \in WorkspaceIds : RemoveWcCommit(w)
    \/ \E w1 \in WorkspaceIds, w2 \in WorkspaceIds : RenameWorkspace(w1, w2)
    \/ \E c \in CommitIds : AddHead(c)
    \/ \E c \in CommitIds : RemoveHead(c)
    \/ \E n \in RefNames, t \in TargetInputs : SetLocalBookmarkTarget(n, t)
    \/ \E r \in RemoteNames, n \in RefNames, rr \in RemoteRefInputs :
          SetRemoteBookmark(r, n, rr)
    \/ \E r \in RemoteNames : RemoveRemote(r)
    \/ \E r1 \in RemoteNames, r2 \in RemoteNames : RenameRemote(r1, r2)
    \/ \E n \in RefNames, t \in TargetInputs : SetTagTarget(n, t)
    \/ \E n \in GitRefNames, t \in TargetInputs : SetGitRefTarget(n, t)
    \/ \E t \in TargetInputs : SetGitHeadTarget(t)
    \/ \E new_data \in SetViewInputs : SetView(new_data)
    \/ \E write \in StoreViewWrites : StoreViewMut(write)

Spec == Init /\ [][Next]_vars

(***************************************************************************)
(* Properties of the View                                                  *)
(***************************************************************************)
Yields(pairs, name) == \E i \in DOMAIN pairs : pairs[i][1] = name

\* No entry of local_bookmarks, tags, git_refs or of any remote's bookmark
\* map holds an absent RefTarget.
StoresNoAbsentTarget(view) ==
    /\ \A n \in DOMAIN view.local_bookmarks : is_present(view.local_bookmarks[n])
    /\ \A n \in DOMAIN view.tags : is_present(view.tags[n])
    /\ \A n \in DOMAIN view.git_refs : is_present(view.git_refs[n])
    /\ \A r \in DOMAIN view.remote_views :
          \A n \in DOMAIN view.remote_views[r].bookmarks :
              is_present(view.remote_views[r].bookmarks[n].target)

TargetSetters ==
    {"set_local_bookmark_target", "set_tag_target", "set_git_ref_target",
     "set_remote_bookmark"}

\* C1: on a View that stores no absent target, a call of
\* set_local_bookmark_target, set_tag_target, set_git_ref_target or
\* set_remote_bookmark, with any name and any target, leaves a View that
\* stores no absent target; so does every sequence of such calls.
NoAbsentTargetStored ==
    [][ (StoresNoAbsentTarget(data) /\ last'.op \in TargetSetters)
            => StoresNoAbsentTarget(data') ]_vars

\* A remote bookmark was set to an absent target (state Tracked) on a remote
\* that has a view, after other calls.
NoAbsentTargetStored_Witness ==
    /\ last.op = "set_remote_bookmark"
    /\ is_absent(last.remote_ref.target)
    /\ last.remote_ref.state = "Tracked"
    /\ last.remote \in DOMAIN data.remote_views
    /\ data.remote_views[last.remote].bookmarks # EmptyMap
    /\ StoresNoAbsentTarget(data)
    /\ nops >= 2

\* C2: rename_workspace(A, B) with B bound fails with WorkspaceAlreadyExists
\* and leaves the whole View unchanged.
RenameToBoundWorkspaceFails ==
    [][ (last'.op = "rename_workspace" /\ last'.new \in DOMAIN data.wc_commit_ids)
        => (last'.result = "WorkspaceAlreadyExists" /\ data' = data) ]_vars

\* rename_workspace(A, B) was called with A and B bound to different commits.
RenameToBoundWorkspaceFails_Witness ==
    /\ last.op = "rename_workspace"
    /\ last.result = "WorkspaceAlreadyExists"
    /\ last.old # last.new
    /\ {last.old, last.new} \subseteq DOMAIN data.wc_commit_ids
    /\ data.wc_commit_ids[last.old] # data.wc_commit_ids[last.new]

\* C3 as stated: rename_workspace(old, new) with old unbound fails with
\* WorkspaceDoesNotExist and leaves the View unchanged.
RenameUnboundFailsDoesNotExist ==
    [][ (last'.op = "rename_workspace" /\ last'.old \notin DOMAIN data.wc_commit_ids)
        => (last'.result = "WorkspaceDoesNotExist" /\ data' = data) ]_vars

\* C3 amended: rename_workspace(old, new) with old unbound fails and leaves
\* the View unchanged; the error is WorkspaceDoesNotExist when new is unbound
\* too and WorkspaceAlreadyExists when new is bound.
RenameUnboundFails ==
    [][ (last'.op = "rename_workspace" /\ last'.old \notin DOMAIN data.wc_commit_ids)
        => /\ data' = data
           /\ last'.result = IF last'.new \in DOMAIN data.wc_commit_ids
                             THEN "WorkspaceAlreadyExists"
                             ELSE "WorkspaceDoesNotExist" ]_vars

\* rename_workspace failed with WorkspaceDoesNotExist on a View that has
\* bindings for other workspaces.
RenameUnboundFails_Witness ==
    /\ last.op = "rename_workspace"
    /\ last.result = "WorkspaceDoesNotExist"
    /\ last.old \notin DOMAIN data.wc_commit_ids
    /\ DOMAIN data.wc_commit_ids # {}

\* C4: rename_workspace(old, new) with old bound to c and new unbound
\* succeeds; afterwards new is bound to c, old is unbound, every other
\* binding and the number of bindings are unchanged. The state after the
\* call is the only one observable: old and new are never both unbound.
RenameMovesBinding ==
    [][ (/\ last'.op = "rename_workspace"
         /\ last'.old \in DOMAIN data.wc_commit_ids
         /\ last'.new \notin DOMAIN data.wc_commit_ids)
        => LET before == data.wc_commit_ids
               after  == data'.wc_commit_ids
           IN  /\ last'.result = "Ok"
               /\ last'.new \in DOMAIN after
               /\ after[last'.new] = before[last'.old]
               /\ last'.old \notin DOMAIN after
               /\ \A w \in WorkspaceIds \ {last'.old, last'.new} :
                     /\ w \in DOMAIN after <=> w \in DOMAIN before
                     /\ w \in DOMAIN before => after[w] = before[w]
               /\ Cardinality(DOMAIN after) = Cardinality(DOMAIN before) ]_vars

\* A rename succeeded on a View that also binds a third workspace.
RenameMovesBinding_Witness ==
    /\ last.op = "rename_workspace"
    /\ last.result = "Ok"
    /\ last.new \in DOMAIN data.wc_commit_ids
    /\ last.old \notin DOMAIN data.wc_commit_ids
    /\ DOMAIN data.wc_commit_ids \ {last.new} # {}

\* C10: after set_local_bookmark_target(name, t), get_local_bookmark(name)
\* returns t and local_bookmarks() yields name iff t is present; the same
\* for set_tag_target/get_tag, set_git_ref_target/get_git_ref and
\* set_git_head_target/git_head.
SetThenGet ==
    /\ last.op = "set_local_bookmark_target" =>
          /\ get_local_bookmark(data, last.name) = last.target
          /\ Yields(local_bookmarks(data), last.name) <=> is_present(last.target)
    /\ last.op = "set_tag_target" =>
          /\ get_tag(data, last.name) = last.target
          /\ last.name \in DOMAIN tags(data) <=> is_present(last.target)
    /\ last.op = "set_git_ref_target" =>
          /\ get_git_ref(data, last.name) = last.target
          /\ last.name \in DOMAIN git_refs(data) <=> is_present(last.target)
    /\ last.op = "set_git_head_target" => git_head(data) = last.target

\* A local bookmark was set to absent while another bookmark stays
\* enumerated.
SetThenGet_Witness ==
    /\ last.op = "set_local_bookmark_target"
    /\ is_absent(last.target)
    /\ get_local_bookmark(data, last.name) = Absent
    /\ ~Yields(local_bookmarks(data), last.name)
    /\ Len(local_bookmarks(data)) = 1

TargetIds(t) == added_ids(t) \cup removed_ids(t)

\* The ids the View names: heads, working-copy commits and both sides of
\* every stored RefTarget.
ReferencedIds(view) ==
    view.head_ids
    \cup {view.wc_commit_ids[w] : w \in DOMAIN view.wc_commit_ids}
    \cup UNION {TargetIds(view.local_bookmarks[n]) : n \in DOMAIN view.local_bookmarks}
    \cup UNION {TargetIds(view.tags[n]) : n \in DOMAIN view.tags}
    \cup UNION {TargetIds(view.remote_views[r].bookmarks[n].target) :
                   <<r, n>> \in {<<r2, n2>> \in RemoteNames \X RefNames :
                                    /\ r2 \in DOMAIN view.remote_views
                                    /\ n2 \in DOMAIN view.remote_views[r2].bookmarks}}
    \cup UNION {TargetIds(view.git_refs[n]) : n \in DOMAIN view.git_refs}
    \cup TargetIds(view.git_head)

\* C11: the ids all_referenced_commit_ids() yields are exactly the heads, the
\* working-copy commits and every add and remove id of every RefTarget of
\* the View; a conflicted bookmark contributes its adds and its removes.
AllReferencedIdsExact ==
    \A ids \in all_referenced_commit_ids(data) : Range(ids) = ReferencedIds(data)

\* The View holds one conflicted bookmark, adds {c2, c3} and remove {c1}, no
\* head and no working copy, and all three ids are yielded.
AllReferencedIdsExact_Witness ==
    /\ get_local_bookmark(data, "main") = Conflicted({"c2", "c3"}, {"c1"})
    /\ data.head_ids = {}
    /\ DOMAIN data.wc_commit_ids = {}
    /\ <<"c2", "c1", "c3">> \in all_referenced_commit_ids(data)
    /\ \A ids \in all_referenced_commit_ids(data) : Range(ids) = {"c1", "c2", "c3"}

\* The names a sequence of (name, value) entries yields, in order.
NamesOf(pairs) == [i \in 1..Len(pairs) |-> pairs[i][1]]
Ascending(order, names) ==
    \A i, j \in 1..Len(names) : i < j => Rank(order, names[i]) < Rank(order, names[j])
RemoteBookmarkNames(view, r) ==
    IF r \in DOMAIN view.remote_views THEN DOMAIN view.remote_views[r].bookmarks ELSE {}

\* The join of the current View, for each remote name.
JoinedByName ==
    \A r \in RemoteNames :
        LET entries == local_remote_bookmarks(data, r)
            names == NamesOf(entries)
        IN  /\ Range(names) = DOMAIN data.local_bookmarks \cup RemoteBookmarkNames(data, r)
            /\ Ascending(RefNameOrder, names)
            /\ \A i \in 1..Len(entries) :
                  /\ entries[i][2].local_target = get_local_bookmark(data, names[i])
                  /\ entries[i][2].remote_ref = get_remote_bookmark(data, r, names[i])
            /\ r \notin DOMAIN data.remote_views =>
                  /\ Range(names) = DOMAIN data.local_bookmarks
                  /\ \A i \in 1..Len(entries) :
                        entries[i][2].remote_ref = absent_remote_ref

\* C19: in every reachable View, local_remote_bookmarks(r) yields exactly one
\* entry per name that is a local bookmark or a bookmark of remote r, in
\* ascending name order, with the stored local target or absent and the
\* stored RemoteRef of r or absent, tracked or not; for a remote without a
\* view, exactly the local bookmarks with an absent remote side.
LocalRemoteBookmarksJoin == []JoinedByName

\* dev exists only on origin, untracked, main only locally; the join for
\* origin yields dev then main, and origin is the only remote.
LocalRemoteBookmarksJoin_Witness ==
    /\ DOMAIN data.local_bookmarks = {"main"}
    /\ DOMAIN data.remote_views = {"origin"}
    /\ DOMAIN data.remote_views["origin"].bookmarks = {"dev"}
    /\ data.remote_views["origin"].bookmarks["dev"].state = "New"
    /\ NamesOf(local_remote_bookmarks(data, "origin")) = <<"dev", "main">>
    /\ NamesOf(local_remote_bookmarks(data, "upstream")) = <<"main">>

BookmarkPatterns == {Exact(n) : n \in RefNames} \cup {Everything}
RemotePatterns == {Exact(r) : r \in RemoteNames} \cup {Everything}
StoredMatching(view, bookmark_pattern, remote_pattern) ==
    {to_remote_symbol(n, r) : <<n, r>> \in
        {<<n, r>> \in RefNames \X RemoteNames :
            /\ r \in DOMAIN view.remote_views
            /\ n \in DOMAIN view.remote_views[r].bookmarks
            /\ is_match(remote_pattern, r)
            /\ is_match(bookmark_pattern, n)}}

\* What remote_bookmarks_matching yields on the current View, for all
\* patterns.
MatchingSortedBySymbol ==
    \A bp \in BookmarkPatterns, rp \in RemotePatterns :
        LET entries == remote_bookmarks_matching(data, bp, rp)
        IN  /\ {entries[i][1] : i \in 1..Len(entries)} = StoredMatching(data, bp, rp)
            /\ \A i, j \in 1..Len(entries) :
                  i < j => symbol_lt(entries[i][1], entries[j][1])
            /\ \A i \in 1..Len(entries) :
                  entries[i][2] = data.remote_views[entries[i][1].remote]
                                      .bookmarks[entries[i][1].name]

\* C20: in every reachable View and for all patterns,
\* remote_bookmarks_matching yields exactly the stored remote bookmarks whose
\* remote name and bookmark name match, each once, with the stored
\* RemoteRef, ascending by symbol (name, then remote) across all matching
\* remotes.
RemoteBookmarksMatchingSorted == []MatchingSortedBySymbol

\* origin holds dev and main, upstream holds dev: the merged order is
\* dev@origin, dev@upstream, main@origin, and an exact remote pattern keeps
\* only that remote.
RemoteBookmarksMatchingSorted_Witness ==
    /\ NamesOf(remote_bookmarks_matching(data, Everything, Everything))
         = << to_remote_symbol("dev", "origin"), to_remote_symbol("dev", "upstream"),
              to_remote_symbol("main", "origin") >>
    /\ NamesOf(remote_bookmarks_matching(data, Exact("dev"), Exact("upstream")))
         = << to_remote_symbol("dev", "upstream") >>

(***************************************************************************)
(* RefTarget merge applied to every triple of bounded RefTargets.          *)
(***************************************************************************)
MergeRefTargets ==
    /\ out = <<>>
    /\ out' = <<merge(call.base, call.side1, call.side2)>>
    /\ UNCHANGED <<call, viewVars, opVars, commitVars>>

InitMerge ==
    /\ ViewIdle
    /\ OpIdle
    /\ CommitIdle
    /\ call \in [base : RefTargets, side1 : RefTargets, side2 : RefTargets]
    /\ out = <<>>

NextMerge == MergeRefTargets

SpecMerge == InitMerge /\ [][NextMerge]_vars

(***************************************************************************)
(* Reconciliation of two Views that diverged from the same base View: a    *)
(* field-wise three-way merge, each field by its own rule.                 *)
(***************************************************************************)
\* Named RefTargets: the RefTarget merge per name; absent results are not
\* stored.
merge_ref_maps(base, left, right) ==
    LET merged(n) == merge(flatten(base, n), flatten(left, n), flatten(right, n))
        names == {n \in DOMAIN base \cup DOMAIN left \cup DOMAIN right :
                     is_present(merged(n))}
    IN  [n \in names |-> merged(n)]

\* Head set: union of both sides without the heads either side removed.
merge_head_ids(base, left, right) ==
    (left \cup right) \ ((base \ left) \cup (base \ right))

\* Working-copy bindings: the later operation (right) wins where it changed
\* the binding, else the earlier one's binding stands.
merge_wc_commit_ids(base, left, right) ==
    LET binding(m, w) == IF w \in DOMAIN m THEN <<m[w]>> ELSE <<>>
        merged(w) == IF binding(right, w) # binding(base, w)
                     THEN binding(right, w) ELSE binding(left, w)
        bound == {w \in DOMAIN base \cup DOMAIN left \cup DOMAIN right :
                     merged(w) # <<>>}
    IN  [w \in bound |-> merged(w)[1]]

\* Remote bookmarks: the target by the RefTarget merge, the tracking state of
\* the side that changed the ref.
merge_remote_views(base, left, right) ==
    LET ref(views, r, n) ==
            IF r \in DOMAIN views
            THEN flatten_remote_ref(views[r].bookmarks, n) ELSE absent_remote_ref
        merged(r, n) ==
            RemoteRef(merge(ref(base, r, n).target, ref(left, r, n).target,
                            ref(right, r, n).target),
                      IF ref(right, r, n).state # ref(base, r, n).state
                      THEN ref(right, r, n).state ELSE ref(left, r, n).state)
        remotes == DOMAIN left \cup DOMAIN right
    IN  [r \in remotes |->
            [bookmarks |-> [n \in {x \in RefNames : remote_ref_is_present(merged(r, x))}
                               |-> merged(r, n)]]]

merge_views(base, left, right) ==
    [ wc_commit_ids   |-> merge_wc_commit_ids(base.wc_commit_ids, left.wc_commit_ids,
                                              right.wc_commit_ids),
      head_ids        |-> merge_head_ids(base.head_ids, left.head_ids, right.head_ids),
      local_bookmarks |-> merge_ref_maps(base.local_bookmarks, left.local_bookmarks,
                                         right.local_bookmarks),
      tags            |-> merge_ref_maps(base.tags, left.tags, right.tags),
      remote_views    |-> merge_remote_views(base.remote_views, left.remote_views,
                                             right.remote_views),
      git_refs        |-> merge_ref_maps(base.git_refs, left.git_refs, right.git_refs),
      git_head        |-> merge(base.git_head, left.git_head, right.git_head) ]

Procs == {"p1", "p2"}
Other(p) == CHOOSE q \in Procs : q # p

\* The base Views: no bookmark, or main resolved to some commit.
BaseViews ==
    {EmptyView} \cup
    {[EmptyView EXCEPT !.local_bookmarks = Insert(EmptyMap, "main", Resolved(c))] :
        c \in CommitIds}
ProcTargets == {Absent} \cup {Resolved(c) : c \in CommitIds}

\* A process moves a local bookmark in its own View and commits the
\* operation.
ProcSetLocalBookmark(p, name, target) ==
    /\ op_pc[p] = "loaded"
    /\ op_views' = [op_views EXCEPT ![p] = set_local_bookmark_target(@, name, target)]
    /\ op_pc' = [op_pc EXCEPT ![p] = "committed"]
    /\ op_calls' = [op_calls EXCEPT ![p] = <<name, target>>]
    /\ UNCHANGED <<op_base, op_merged, viewVars, mergeVars, commitVars>>

\* A process sees the two operations and reconciles them, its own View first.
Reconcile(p) ==
    /\ \A q \in Procs : op_pc[q] = "committed"
    /\ op_merged = <<>>
    /\ op_merged' = <<p, merge_views(op_base, op_views[p], op_views[Other(p)])>>
    /\ UNCHANGED <<op_base, op_views, op_pc, op_calls, viewVars, mergeVars, commitVars>>

InitReconcile ==
    /\ ViewIdle
    /\ MergeIdle
    /\ CommitIdle
    /\ op_base \in BaseViews
    /\ op_views = [p \in Procs |-> op_base]
    /\ op_pc = [p \in Procs |-> "loaded"]
    /\ op_calls = [p \in Procs |-> <<>>]
    /\ op_merged = <<>>

NextReconcile ==
    \/ \E p \in Procs, n \in RefNames, t \in ProcTargets : ProcSetLocalBookmark(p, n, t)
    \/ \E p \in Procs : Reconcile(p)

SpecReconcile == InitReconcile /\ [][NextReconcile]_vars

\* Starting from main -> x, one process set main to y and the other to z.
BothMovedMain(x, y, z) ==
    /\ get_local_bookmark(op_base, "main") = Resolved(x)
    /\ \E p \in Procs :
          /\ op_calls[p] = <<"main", Resolved(y)>>
          /\ op_calls[Other(p)] = <<"main", Resolved(z)>>

\* C7: when two processes concurrently move main from C1 to C2 and to C3,
\* the reconciled View has main conflicted with adds {C2, C3} and remove
\* {C1}, whichever process reconciles.
ConcurrentMovesConflict ==
    \A x, y, z \in CommitIds :
        (op_merged # <<>> /\ x # y /\ x # z /\ y # z /\ BothMovedMain(x, y, z))
        => get_local_bookmark(op_merged[2], "main") = Conflicted({y, z}, {x})

\* p1 moved main from c1 to c2, p2 to c3, and p2 reconciled.
ConcurrentMovesConflict_Witness ==
    /\ op_merged # <<>>
    /\ op_merged[1] = "p2"
    /\ get_local_bookmark(op_base, "main") = Resolved("c1")
    /\ op_calls["p1"] = <<"main", Resolved("c2")>>
    /\ op_calls["p2"] = <<"main", Resolved("c3")>>
    /\ get_local_bookmark(op_merged[2], "main") = Conflicted({"c2", "c3"}, {"c1"})

(***************************************************************************)
(* Properties of the RefTarget merge                                       *)
(***************************************************************************)
Merged == out[1]
TwoResolvedSides ==
    /\ out # <<>>
    /\ is_resolved(call.side1)
    /\ is_resolved(call.side2)
    /\ call.side1 # call.side2
DivergedIsConflicted ==
    /\ is_conflicted(Merged)
    /\ added_ids(call.side1) \cup added_ids(call.side2) \subseteq added_ids(Merged)
    /\ is_resolved(call.base) => added_ids(call.base) \subseteq removed_ids(Merged)
    /\ Merged \notin {call.side1, call.side2}

\* C5 as stated: if both sides are resolved to different single commit ids,
\* the result is conflicted, has both ids as adds and, for a resolved base,
\* the base id as a remove; it is not one of the two sides.
DifferentResolvedSidesConflict == TwoResolvedSides => DivergedIsConflicted

\* C5 amended: the same, provided neither side's id is an add of the base
\* (for a resolved base: both sides differ from the base).
ChangedResolvedSidesConflict ==
    (/\ TwoResolvedSides
     /\ added_ids(call.base) \cap (added_ids(call.side1) \cup added_ids(call.side2)) = {})
    => DivergedIsConflicted

\* merge(c1, c2, c3) gave adds {c2, c3} and remove {c1}.
ChangedResolvedSidesConflict_Witness ==
    /\ call = [base |-> Resolved("c1"), side1 |-> Resolved("c2"), side2 |-> Resolved("c3")]
    /\ out = <<Conflicted({"c2", "c3"}, {"c1"})>>

\* C8: with a resolved base, if one side equals the base and the other
\* differs from it, the merge is the changed side's value.
OneSidedChangeWins ==
    (out # <<>> /\ is_resolved(call.base)) =>
        /\ (call.side1 = call.base /\ call.side2 # call.base) => Merged = call.side2
        /\ (call.side2 = call.base /\ call.side1 # call.base) => Merged = call.side1

\* One side deleted a resolved target, the other left it: the merge is absent.
OneSidedChangeWins_Witness ==
    /\ out = <<Absent>>
    /\ is_resolved(call.base)
    /\ call.side1 = call.base
    /\ call.side2 = Absent

\* C9: merge(t, t, t) = t for every RefTarget t.
MergeUnchanged ==
    (out # <<>> /\ call.side1 = call.base /\ call.side2 = call.base)
        => Merged = call.base

\* merge(t, t, t) has run for a conflicted t with adds and a remove.
MergeUnchanged_Witness ==
    /\ out = <<call.base>>
    /\ call.side1 = call.base
    /\ call.side2 = call.base
    /\ Cardinality(added_ids(call.base)) = 2
    /\ Cardinality(removed_ids(call.base)) = 1

(***************************************************************************)
(* Queries on one Commit, over every bounded commit and backend.           *)
(***************************************************************************)
\* The ids a queried commit names as parents, and the queried commit's id.
ParentIds == {"c1", "c2"}
ParentIdSeqs == UNION {[1..n -> ParentIds] : n \in 0..MaxParents}
Descriptions == {"", "fix"}
\* A commit the backend holds for a parent id.
StoredParents ==
    { BackendCommit(<<>>, t, "", 0, <<>>) :
        t \in {Legacy("t1"), Legacy("t2"), MergeOfTrees(<<"t1">>)} }
StoredCommitMaps ==
    UNION {[ids -> StoredParents] : ids \in SUBSET ParentIds}
TreeMergeResults ==
    {Ok(t) : t \in MergedTreeIds} \cup {Err([kind |-> "Other", id |-> "merge"])}
Backends ==
    [ commits : StoredCommitMaps,
      trees : [TreeIds -> {"missing", "clean", "conflicted"}],
      tree_merge : TreeMergeResults ]
QueriedCommits ==
    { NewCommit("c3", BackendCommit(ps, t, d, 0, <<>>)) :
        ps \in ParentIdSeqs, t \in MergedTreeIds, d \in Descriptions }

IsEmpty ==
    /\ answer' = [op |-> "is_empty", result |-> is_empty(commit, backend)]
    /\ UNCHANGED <<commit, backend, signer, seen, operands, viewVars, mergeVars, opVars>>

ParentTree ==
    /\ answer' = [op |-> "parent_tree", result |-> parent_tree(commit, backend)]
    /\ UNCHANGED <<commit, backend, signer, seen, operands, viewVars, mergeVars, opVars>>

HasConflict ==
    /\ answer' = [op |-> "has_conflict", result |-> has_conflict(commit, backend)]
    /\ UNCHANGED <<commit, backend, signer, seen, operands, viewVars, mergeVars, opVars>>

IsDiscardable ==
    /\ answer' = [op |-> "is_discardable", result |-> is_discardable(commit, backend)]
    /\ UNCHANGED <<commit, backend, signer, seen, operands, viewVars, mergeVars, opVars>>

InitCommit ==
    /\ ViewIdle
    /\ MergeIdle
    /\ OpIdle
    /\ commit \in QueriedCommits
    /\ backend \in Backends
    /\ answer = [op |-> "none"]
    /\ signer = NewSigner
    /\ seen = EmptyMap
    /\ operands = <<>>

NextCommit ==
    \/ IsEmpty
    \/ ParentTree
    \/ HasConflict
    \/ IsDiscardable

SpecCommit == InitCommit /\ [][NextCommit]_vars

\* Every parent id of the queried commit is held by the backend.
AllParentsFound == \A i \in 1..Len(commit.data.parents) :
                       commit.data.parents[i] \in DOMAIN backend.commits
ParentTreeId(i) == backend.commits[commit.data.parents[i]].root_tree

\* C12: when all parent lookups succeed, is_discardable() is true iff the
\* description is empty, there is exactly one parent and the tree id equals
\* that parent's tree id.
DiscardableIffEmptyChange ==
    (answer.op = "is_discardable" /\ AllParentsFound) =>
        /\ answer.result.ok
        /\ answer.result.value =
              ( /\ commit.data.description = ""
                /\ Len(commit.data.parents) = 1
                /\ merged_tree_id_eq(commit.data.root_tree, ParentTreeId(1)) )

\* A described commit with one parent and that parent's tree is asked and
\* is not discardable.
DiscardableIffEmptyChange_Witness ==
    /\ answer.op = "is_discardable"
    /\ AllParentsFound
    /\ commit.data.description # ""
    /\ Len(commit.data.parents) = 1
    /\ commit.data.root_tree = ParentTreeId(1)
    /\ answer.result = Ok(FALSE)

\* The tree the code compares the commit's tree to.
ExpectedParentTree ==
    IF Len(commit.data.parents) = 1 THEN ParentTreeId(1) ELSE backend.tree_merge.value
AllLookupsSucceed ==
    /\ AllParentsFound
    /\ Len(commit.data.parents) # 1 => backend.tree_merge.ok

\* C13: when all lookups succeed, is_empty is true iff the commit's tree
\* equals its parent tree (the single parent's tree, or the merge of the
\* parent trees for zero or several parents), whatever the description.
EmptyIffTreeEqualsParentTree ==
    (answer.op = "is_empty" /\ AllLookupsSucceed) =>
        /\ answer.result = Ok(merged_tree_id_eq(commit.data.root_tree, ExpectedParentTree))
        /\ parent_tree(commit, backend) = Ok(ExpectedParentTree)
        /\ \A d \in Descriptions :
              is_empty([commit EXCEPT !.data.description = d], backend) = answer.result

\* A described commit with two parents whose tree is the merge of the parent
\* trees is asked and is empty.
EmptyIffTreeEqualsParentTree_Witness ==
    /\ answer.op = "is_empty"
    /\ AllLookupsSucceed
    /\ Len(commit.data.parents) = 2
    /\ commit.data.description # ""
    /\ commit.data.root_tree = backend.tree_merge.value
    /\ ~merged_tree_id_eq(commit.data.root_tree, ParentTreeId(1))
    /\ answer.result = Ok(TRUE)

RootUnresolved ==
    /\ commit.data.root_tree.kind = "Merge"
    /\ Len(commit.data.root_tree.ids) > 1
\* The single tree a resolved root tree reference names.
ResolvedRootTreeId ==
    IF commit.data.root_tree.kind = "Legacy"
    THEN commit.data.root_tree.id ELSE commit.data.root_tree.ids[1]

\* C14: has_conflict() returns true iff the root tree reference is an
\* unresolved merge, or it is resolved and the content of its tree has
\* conflicts.
ConflictIffUnresolvedOrContent ==
    (answer.op = "has_conflict" /\ answer.result.ok) =>
        answer.result.value =
            ( \/ RootUnresolved
              \/ /\ ~RootUnresolved
                 /\ backend.trees[ResolvedRootTreeId] = "conflicted" )

FirstMissingParent ==
    commit.data.parents[CHOOSE i \in 1..Len(commit.data.parents) :
        /\ commit.data.parents[i] \notin DOMAIN backend.commits
        /\ \A j \in 1..(i - 1) : commit.data.parents[j] \in DOMAIN backend.commits]

\* C15: when a parent id cannot be resolved, is_empty and parent_tree return
\* that not-found error and no Ok value; when the parents resolve and the
\* merge of the parent trees fails, they return that error unchanged.
ParentLookupErrorsPropagate ==
    answer.op \in {"is_empty", "parent_tree"} =>
        /\ ~AllParentsFound => answer.result = Err(ObjectNotFound(FirstMissingParent))
        /\ (AllParentsFound /\ Len(commit.data.parents) # 1 /\ ~backend.tree_merge.ok)
              => answer.result = backend.tree_merge

\* The second of two parents is missing and the commit has the first
\* parent's tree: is_empty fails for the missing id.
ParentLookupErrorsPropagate_Witness ==
    /\ answer.op = "is_empty"
    /\ Len(commit.data.parents) = 2
    /\ commit.data.parents[1] \in DOMAIN backend.commits
    /\ commit.data.parents[2] \notin DOMAIN backend.commits
    /\ commit.data.root_tree = ParentTreeId(1)
    /\ answer.result = Err(ObjectNotFound(commit.data.parents[2]))

(***************************************************************************)
(* Signature verification of the commits of one Store.                     *)
(***************************************************************************)
SecureSigs == { [data |-> "payload", sig |-> s] : s \in {"sigA", "sigB"} }
Verifications == { [status |-> st] : st \in {"Good", "Bad", "Unknown"} }
\* What running the signing backend gives: a verification, or a failure.
VerifyOutcomes ==
    {Ok(v) : v \in Verifications} \cup {Err([kind |-> "Backend", id |-> "signing"])}
SignedOrNot ==
    { BackendCommit(<<>>, Legacy("t1"), "", 0, sig) :
        sig \in {<<>>} \cup {<<s>> : s \in SecureSigs} }

\* The commits verification() is called on, as Commit::new builds them: any
\* id, signed or not.
VerifiedCommits == { NewCommit(id, commit_data) : id \in CommitIds, commit_data \in SignedOrNot }

\* verification() is called on a commit.
Verification(queried, outcome) ==
    LET returned == verification(queried, signer, outcome)
    IN  /\ commit' = queried
        /\ signer' = returned.signer
        /\ answer' = [ op |-> "verification", result |-> returned.result,
                       verify_calls |-> returned.verify_calls,
                       performed |-> returned.performed,
                       previous |-> IF /\ queried.id \in DOMAIN seen
                                       /\ seen[queried.id].commit = queried
                                    THEN <<seen[queried.id].result>> ELSE <<>> ]
        /\ seen' = Insert(seen, queried.id,
                          [commit |-> queried, result |-> returned.result])
        /\ UNCHANGED <<backend, operands, viewVars, mergeVars, opVars>>

InitVerify ==
    /\ ViewIdle
    /\ MergeIdle
    /\ OpIdle
    /\ commit = NoCommit
    /\ backend = NoBackend
    /\ answer = [op |-> "none"]
    /\ signer = NewSigner
    /\ seen = EmptyMap
    /\ operands = <<>>

NextVerify ==
    \E queried \in VerifiedCommits, outcome \in VerifyOutcomes : Verification(queried, outcome)

SpecVerify == InitVerify /\ [][NextVerify]_vars

\* C16: verification() on a commit without a signature returns Ok(None) and
\* does not call the signer; on a signed commit it calls the signer once and
\* returns its verification, and it returns an error exactly when that call
\* failed, with the signer's error.
VerificationFollowsSigner ==
    answer.op = "verification" =>
        /\ ~is_signed(commit) => answer.result = Ok(<<>>) /\ answer.verify_calls = <<>>
        /\ is_signed(commit) =>
              /\ Len(answer.verify_calls) = 1
              /\ answer.verify_calls[1].ok =>
                    answer.result = Ok(<<answer.verify_calls[1].value>>)
              /\ ~answer.verify_calls[1].ok => answer.result = answer.verify_calls[1]
        /\ ~answer.result.ok <=>
              (answer.verify_calls # <<>> /\ ~answer.verify_calls[1].ok)

\* The signer fails on a signed commit, and verification() returns its
\* error.
VerificationFollowsSigner_Witness ==
    /\ answer.op = "verification"
    /\ is_signed(commit)
    /\ answer.verify_calls = <<Err([kind |-> "Backend", id |-> "signing"])>>
    /\ answer.result = Err([kind |-> "Backend", id |-> "signing"])

ComparedCommits ==
    { NewCommit(id, BackendCommit(<<>>, Legacy("t1"), d, ts, <<>>)) :
        id \in CommitIds, d \in Descriptions, ts \in 0..MaxTimestamp }
Positions == 1..3
Arrivals == { p \in [Positions -> Positions] : \A i, j \in Positions : p[i] = p[j] => i = j }
Wrapped(arrival) == [k \in Positions |-> CommitByCommitterTimestamp(operands[arrival[k]])]

\* Two of the commits are compared, bare and wrapped.
Compare(i, j) ==
    /\ answer' = [ op |-> "cmp", left |-> i, right |-> j,
                   eq |-> eq(operands[i], operands[j]),
                   cmp |-> cmp(operands[i], operands[j]),
                   hashes |-> <<hash(operands[i]), hash(operands[j])>>,
                   by_timestamp_eq |->
                       by_timestamp_eq(CommitByCommitterTimestamp(operands[i]),
                                       CommitByCommitterTimestamp(operands[j])),
                   by_timestamp_cmp |->
                       by_timestamp_cmp(CommitByCommitterTimestamp(operands[i]),
                                        CommitByCommitterTimestamp(operands[j])) ]
    /\ UNCHANGED <<commit, backend, signer, seen, operands, viewVars, mergeVars, opVars>>

\* The commits arrive in some order and are sorted by committer timestamp.
SortByCommitterTimestamp(arrival) ==
    /\ answer' = [op |-> "sort", arrival |-> arrival, result |-> sort(Wrapped(arrival))]
    /\ UNCHANGED <<commit, backend, signer, seen, operands, viewVars, mergeVars, opVars>>

InitOrder ==
    /\ ViewIdle
    /\ MergeIdle
    /\ OpIdle
    /\ commit = NoCommit
    /\ backend = NoBackend
    /\ answer = [op |-> "none"]
    /\ signer = NewSigner
    /\ seen = EmptyMap
    /\ operands \in [Positions -> ComparedCommits]

NextOrder ==
    \/ \E i \in Positions, j \in Positions : Compare(i, j)
    \/ \E arrival \in Arrivals : SortByCommitterTimestamp(arrival)

SpecOrder == InitOrder /\ [][NextOrder]_vars

TimestampOf(c) == c.data.committer_timestamp
AllWrapped == { CommitByCommitterTimestamp(operands[k]) : k \in Positions }
LessOrEqual(x, y) == by_timestamp_cmp(x, y) # "Greater"
Reverse(ordering) ==
    IF ordering = "Less" THEN "Greater" ELSE IF ordering = "Greater" THEN "Less" ELSE "Equal"

\* Equality, ordering and hashing of Commit follow the id whatever the
\* content.
ComparedById ==
    answer.op = "cmp" =>
        LET a == operands[answer.left]
            b == operands[answer.right]
        IN  /\ answer.eq = (a.id = b.id)
            /\ answer.cmp = cmp_int(Rank(CommitIdOrder, a.id), Rank(CommitIdOrder, b.id))
            /\ a.id = b.id => answer.hashes[1] = answer.hashes[2]
            /\ answer.by_timestamp_eq = (a.id = b.id)

\* The wrapper orders by committer timestamp, ties broken by id.
ComparedByTimestampThenId ==
    answer.op = "cmp" =>
        LET a == operands[answer.left]
            b == operands[answer.right]
        IN  answer.by_timestamp_cmp =
                IF TimestampOf(a) # TimestampOf(b)
                THEN cmp_int(TimestampOf(a), TimestampOf(b))
                ELSE cmp_int(Rank(CommitIdOrder, a.id), Rank(CommitIdOrder, b.id))

\* Total, antisymmetric and transitive.
TimestampOrderIsTotal ==
    \A x, y, z \in AllWrapped :
        /\ by_timestamp_cmp(x, y) = Reverse(by_timestamp_cmp(y, x))
        /\ (LessOrEqual(x, y) /\ LessOrEqual(y, x)) => by_timestamp_eq(x, y)
        /\ (LessOrEqual(x, y) /\ LessOrEqual(y, z)) => LessOrEqual(x, z)

\* Sorting gives the same commits in the same places for every arrival
\* order, and they ascend.
SortIndependentOfArrival ==
    answer.op = "sort" =>
        /\ \A k \in 1..(Len(answer.result) - 1) :
              LessOrEqual(answer.result[k], answer.result[k + 1])
        /\ \A arrival \in Arrivals :
              \A k \in Positions :
                  by_timestamp_eq(sort(Wrapped(arrival))[k], answer.result[k])

ViewFields == DOMAIN EmptyView

\* The two Views agree on every field outside `fields`.
SameOutside(before, after, fields) ==
    \A f \in ViewFields \ fields : after[f] = before[f]

\* The two maps agree on every key outside `keys`.
SameOutsideKeys(before, after, keys) ==
    /\ DOMAIN after \ keys = DOMAIN before \ keys
    /\ \A k \in DOMAIN before \ keys : after[k] = before[k]

\* The bookmarks a View stores for a remote; none when it has no remote view.
BookmarksOf(view, remote) ==
    IF remote \in DOMAIN view.remote_views
    THEN view.remote_views[remote].bookmarks ELSE EmptyMap

\* What the call recorded in `rec` may change between the two Views.
WithinFrame(rec, before, after) ==
    CASE rec.op \in {"set_wc_commit", "remove_wc_commit"} ->
            /\ SameOutside(before, after, {"wc_commit_ids"})
            /\ SameOutsideKeys(before.wc_commit_ids, after.wc_commit_ids,
                               {rec.workspace_id})
      [] rec.op = "rename_workspace" ->
            /\ SameOutside(before, after, {"wc_commit_ids"})
            /\ SameOutsideKeys(before.wc_commit_ids, after.wc_commit_ids,
                               {rec.old, rec.new})
      [] rec.op \in {"add_head", "remove_head"} ->
            /\ SameOutside(before, after, {"head_ids"})
            /\ after.head_ids \ {rec.head_id} = before.head_ids \ {rec.head_id}
      [] rec.op = "set_local_bookmark_target" ->
            /\ SameOutside(before, after, {"local_bookmarks"})
            /\ SameOutsideKeys(before.local_bookmarks, after.local_bookmarks, {rec.name})
            /\ \A r \in RemoteNames :
                  get_remote_bookmark(after, r, rec.name)
                      = get_remote_bookmark(before, r, rec.name)
      [] rec.op = "set_tag_target" ->
            /\ SameOutside(before, after, {"tags"})
            /\ SameOutsideKeys(before.tags, after.tags, {rec.name})
      [] rec.op = "set_git_ref_target" ->
            /\ SameOutside(before, after, {"git_refs"})
            /\ SameOutsideKeys(before.git_refs, after.git_refs, {rec.name})
      [] rec.op = "set_git_head_target" ->
            SameOutside(before, after, {"git_head"})
      [] rec.op = "set_remote_bookmark" ->
            /\ SameOutside(before, after, {"remote_views"})
            /\ SameOutsideKeys(before.remote_views, after.remote_views, {rec.remote})
            /\ SameOutsideKeys(BookmarksOf(before, rec.remote),
                               BookmarksOf(after, rec.remote), {rec.name})
      [] rec.op = "remove_remote" ->
            /\ SameOutside(before, after, {"remote_views"})
            /\ SameOutsideKeys(before.remote_views, after.remote_views, {rec.remote})
      [] rec.op = "rename_remote" ->
            /\ SameOutside(before, after, {"remote_views"})
            /\ SameOutsideKeys(before.remote_views, after.remote_views,
                               {rec.old, rec.new})
      [] rec.op \in {"set_view", "store_view_mut"} -> TRUE

\* C22: every View mutator changes only its own field and, within it, only the
\* named key; set_local_bookmark_target leaves the remote bookmarks of the same
\* name alone and the remote mutators leave local_bookmarks alone.
MutatorsKeepFrame == [][ WithinFrame(last', data, data') ]_vars

\* An absent target was set for local "main" while a remote holds "main" and
\* local "dev" is stored too: that remote bookmark and "dev" are still there.
MutatorsKeepFrame_Witness ==
    /\ last.op = "set_local_bookmark_target"
    /\ last.name = "main"
    /\ is_absent(last.target)
    /\ remote_ref_is_present(get_remote_bookmark(data, "origin", "main"))
    /\ "dev" \in DOMAIN data.local_bookmarks

(***************************************************************************)
(* set_remote_bookmark with an absent RemoteRef.                           *)
(***************************************************************************)
AbsentRemoteRefInputs == {rr \in RemoteRefInputs : ~remote_ref_is_present(rr)}
PresentRemoteRefInputs == {rr \in RemoteRefInputs : remote_ref_is_present(rr)}

\* A call of set_remote_bookmark with an absent RemoteRef keeps the set of
\* remote views, takes away nothing but the named bookmark, and leaves the
\* symbol reading as the absent RemoteRef.
AbsentSetRemovesNamedOnly(rec, before, after) ==
    (rec.op = "set_remote_bookmark" /\ ~remote_ref_is_present(rec.remote_ref)) =>
        /\ DOMAIN after.remote_views = DOMAIN before.remote_views
        /\ \A r \in DOMAIN before.remote_views :
              after.remote_views[r].bookmarks
                  = IF r = rec.remote
                    THEN Remove(before.remote_views[r].bookmarks, rec.name)
                    ELSE before.remote_views[r].bookmarks
        /\ get_remote_bookmark(after, rec.remote, rec.name) = absent_remote_ref

\* A present set that made the view of a new remote, followed by an absent
\* set of the same symbol, ends with an empty view for the remote, so not
\* with the View the present set started from.
PresentThenAbsentLeavesEmptyView(rec, before, after) ==
    (/\ rec.op = "set_remote_bookmark"
     /\ remote_ref_is_present(rec.remote_ref)
     /\ rec.remote \notin DOMAIN before.remote_views) =>
        \A absent \in AbsentRemoteRefInputs :
            LET back == set_remote_bookmark(after, rec.remote, rec.name, absent)
            IN  /\ back = [before EXCEPT !.remote_views =
                              Insert(@, rec.remote, EmptyRemoteView)]
                /\ back # before

\* C23: set_remote_bookmark(symbol, absent) removes at most the named bookmark
\* of the named remote, never creates and never removes a remote view, and
\* get_remote_bookmark(symbol) is absent afterwards; a present set on a new
\* remote followed by an absent set leaves an empty remote view behind, a View
\* that differs from the original.
AbsentRemoteBookmarkKeepsViews ==
    [][ /\ AbsentSetRemovesNamedOnly(last', data, data')
        /\ PresentThenAbsentLeavesEmptyView(last', data, data') ]_vars

\* Two calls on the empty View, the second an absent set: "origin" is left
\* with an empty remote view and the View is not the empty View.
AbsentRemoteBookmarkKeepsViews_Witness ==
    /\ nops = 2
    /\ last.op = "set_remote_bookmark"
    /\ last.remote = "origin"
    /\ ~remote_ref_is_present(last.remote_ref)
    /\ data = [EmptyView EXCEPT !.remote_views = Insert(@, "origin", EmptyRemoteView)]
    /\ data # EmptyView

(***************************************************************************)
(* rename_remote and remove_remote.                                        *)
(***************************************************************************)
\* remove_remote(r): r has no view and so no bookmark afterwards; every other
\* remote view and every other field is as before.
RemoveRemoteTakesOneView(rec, before, after) ==
    rec.op = "remove_remote" =>
        /\ rec.remote \notin DOMAIN after.remote_views
        /\ \A n \in RefNames :
              get_remote_bookmark(after, rec.remote, n) = absent_remote_ref
        /\ SameOutsideKeys(before.remote_views, after.remote_views, {rec.remote})
        /\ SameOutside(before, after, {"remote_views"})

\* rename_remote(old, new) with no view for old: the View is as before.
RenameMissingRemoteIsNoOp(rec, before, after) ==
    (rec.op = "rename_remote" /\ rec.old \notin DOMAIN before.remote_views) =>
        after = before

\* rename_remote(old, new) with a view for old: new holds exactly what old
\* held, whatever new held before; nothing else moves.
RenameMovesView(rec, before, after) ==
    (rec.op = "rename_remote" /\ rec.old \in DOMAIN before.remote_views) =>
        /\ rec.new \in DOMAIN after.remote_views
        /\ after.remote_views[rec.new] = before.remote_views[rec.old]
        /\ SameOutsideKeys(before.remote_views, after.remote_views, {rec.old, rec.new})
        /\ SameOutside(before, after, {"remote_views"})

\* C24, as stated: rename_remote(old, new) leaves the View unchanged when old
\* has no remote view; when old has one, afterwards old has none and new holds
\* exactly old's former bookmarks; remove_remote(r) removes every bookmark of
\* r and nothing else.
RenameRemoteLeavesOldWithoutView ==
    [][ /\ RenameMissingRemoteIsNoOp(last', data, data')
        /\ RenameMovesView(last', data, data')
        /\ (last'.op = "rename_remote" /\ last'.old \in DOMAIN data.remote_views) =>
               last'.old \notin DOMAIN data'.remote_views
        /\ RemoveRemoteTakesOneView(last', data, data') ]_vars

\* C24, amended: as stated, except that old has no view afterwards only when
\* new is another name; rename_remote(r, r) on a remote with a view leaves the
\* View unchanged.
RenameRemoteMovesView ==
    [][ /\ RenameMissingRemoteIsNoOp(last', data, data')
        /\ RenameMovesView(last', data, data')
        /\ (last'.op = "rename_remote" /\ last'.old \in DOMAIN data.remote_views) =>
               IF last'.old = last'.new
               THEN data' = data
               ELSE last'.old \notin DOMAIN data'.remote_views
        /\ RemoveRemoteTakesOneView(last', data, data') ]_vars

\* After set_view to the View that holds "main" under "origin" and "dev"
\* under "upstream", "origin" was renamed to "upstream": "upstream" holds the
\* bookmark "origin" had, "dev" is gone, and "origin" has no view.
RenameRemoteMovesView_Witness ==
    /\ nops = 2
    /\ last = [op |-> "rename_remote", old |-> "origin", new |-> "upstream"]
    /\ data.tags # EmptyMap
    /\ data.remote_views =
          Insert(EmptyMap, "upstream",
                 [bookmarks |-> Insert(EmptyMap, "main", RemoteRef(Resolved("c1"), "New"))])

====
